---- MODULE Spec2Model ----
(***************************************************************************)
(* Document retrieval core of src/utils/retrieval_gnn.py (class            *)
(* GNNRetrieval): chunk_document, create_graph_edges,                      *)
(* retrieve_relevant_chunks, process_document and the constructor.         *)
(*                                                                         *)
(* Texts are sequences of one-character strings.  Scores and weights are   *)
(* exact rationals <<num, den>> with den > 0; embedding vectors are drawn  *)
(* from a set of integer vectors whose Euclidean norm is an integer, so    *)
(* that dot / (norm * norm) is represented without rounding.               *)
(***************************************************************************)
EXTENDS Integers, Sequences, FiniteSets, TLC

(* ------------------------------ bounds --------------------------------- *)
MaxLen == 7
MaxChunkSize == 2
MaxOverlap == 2

Alphabet == {"a", ".", " "}
None == "None"

(* --------------------------- text primitives --------------------------- *)
\* \s of the regular expression and the separator of str.split()/str.strip()
IsSpace(c) == c \in {" ", "\n"}

\* the character class [.!?] of the sentence boundary
IsPunct(c) == c \in {".", "!", "?"}

Max(a, b) == IF a >= b THEN a ELSE b
Min(a, b) == IF a <= b THEN a ELSE b

\* seq[start:] with Python's index rules (negative start counts from the end)
PySliceFrom(s, start) ==
    LET n  == Len(s)
        lo == IF start < 0 THEN Max(n + start, 0) ELSE Min(start, n)
    IN  SubSeq(s, lo + 1, n)

\* first index >= i of a non-whitespace character, Len(t) + 1 if none
RECURSIVE SkipSpace(_, _)
SkipSpace(t, i) ==
    IF i > Len(t) \/ ~IsSpace(t[i]) THEN i ELSE SkipSpace(t, i + 1)

\* re.split(r'(?<=[.!?])\s+', t): cut at every whitespace run that starts
\* right after a '.', '!' or '?'; cur is the piece being collected
RECURSIVE SplitFrom(_, _, _, _)
SplitFrom(t, i, cur, out) ==
    IF i > Len(t) THEN Append(out, cur)
    ELSE IF IsSpace(t[i]) /\ i > 1 /\ IsPunct(t[i - 1])
         THEN SplitFrom(t, SkipSpace(t, i), <<>>, Append(out, cur))
         ELSE SplitFrom(t, i + 1, Append(cur, t[i]), out)

ReSplit(t) == SplitFrom(t, 1, <<>>, <<>>)

\* last index <= i of a non-whitespace character, 0 if none
RECURSIVE SkipSpaceBack(_, _)
SkipSpaceBack(t, i) ==
    IF i < 1 \/ ~IsSpace(t[i]) THEN i ELSE SkipSpaceBack(t, i - 1)

\* str.strip()
Strip(s) == SubSeq(s, SkipSpace(s, 1), SkipSpaceBack(s, Len(s)))

\* str.split(): the maximal runs of non-whitespace characters
RECURSIVE WordsFrom(_, _, _, _)
WordsFrom(s, i, cur, out) ==
    IF i > Len(s) THEN (IF cur = <<>> THEN out ELSE Append(out, cur))
    ELSE IF IsSpace(s[i])
         THEN WordsFrom(s, i + 1, <<>>, IF cur = <<>> THEN out ELSE Append(out, cur))
         ELSE WordsFrom(s, i + 1, Append(cur, s[i]), out)

PySplit(s) == WordsFrom(s, 1, <<>>, <<>>)

\* len(s.split())
WordCount(s) == Len(PySplit(s))

\* ' '.join(parts)
RECURSIVE Join(_)
Join(parts) ==
    IF parts = <<>> THEN <<>>
    ELSE IF Len(parts) = 1 THEN parts[1]
    ELSE parts[1] \o <<" ">> \o Join(Tail(parts))

RECURSIVE SumWords(_)
SumWords(parts) ==
    IF parts = <<>> THEN 0 ELSE WordCount(parts[1]) + SumWords(Tail(parts))

\* variant of StripNonEmpty that keeps the pieces that strip to ""
StripNonEmptyBroken(pieces) == [i \in 1..Len(pieces) |-> Strip(pieces[i])]
\* sentences = [s.strip() for s in re.split(...) if s.strip()]
RECURSIVE StripNonEmpty(_)
StripNonEmpty(pieces) ==
    IF pieces = <<>> THEN <<>>
    ELSE LET s == Strip(pieces[1])
         IN  IF s = <<>> THEN StripNonEmpty(Tail(pieces))
             ELSE <<s>> \o StripNonEmpty(Tail(pieces))

Sentences(t) == StripNonEmpty(ReSplit(t))

(* ---------------------------- chunk_document --------------------------- *)
\* The loop state is [chunks, current_chunk, current_length]; spans and
\* cur_span record, for each emitted chunk and for the buffer, the positions
\* (in sentences) of the sentences they hold.

\* variant of NextId that counts ids from 1
NextIdBroken(chs) == Len(chs) + 1
\* 'id': len(chunks), the id given to a chunk when it is appended
NextId(chs) == Len(chs)

\* variant of NewChunk that also flags the final chunk as the first
NewChunkBroken(chs, cur, curlen, isEnd) ==
    LET chunk_text == Join(cur)
    IN  [id             |-> NextId(chs),
         text           |-> chunk_text,
         word_count     |-> curlen,
         char_count     |-> Len(chunk_text),
         start_sentence |-> (Len(chs) = 0 \/ isEnd),
         end_sentence   |-> isEnd]
\* the dictionary appended to chunks
NewChunk(chs, cur, curlen, isEnd) ==
    LET chunk_text == Join(cur)
    IN  [id             |-> NextId(chs),
         text           |-> chunk_text,
         word_count     |-> curlen,
         char_count     |-> Len(chunk_text),
         start_sentence |-> (Len(chs) = 0),
         end_sentence   |-> isEnd]

\* variant of ShouldClose comparing with >= instead of >
ShouldCloseBroken(st, sentence, csize) ==
    /\ st.current_length + WordCount(sentence) >= csize
    /\ st.current_chunk # <<>>
\* if current_length + sentence_length > chunk_size and current_chunk
ShouldClose(st, sentence, csize) ==
    /\ st.current_length + WordCount(sentence) > csize
    /\ st.current_chunk # <<>>

\* current_chunk[-overlap:] if len(current_chunk) > overlap else current_chunk
OverlapSentences(cur, ov) ==
    IF Len(cur) > ov THEN PySliceFrom(cur, 0 - ov) ELSE cur

\* variant of CloseState whose new length leaves out the carried sentences
CloseStateBroken(st, sentence, k, ov) ==
    LET carried == OverlapSentences(st.current_chunk, ov)
        newcur  == carried \o <<sentence>>
    IN  [chunks         |-> Append(st.chunks,
                                   NewChunk(st.chunks, st.current_chunk,
                                            st.current_length, FALSE)),
         current_chunk  |-> newcur,
         current_length |-> WordCount(sentence),
         spans          |-> Append(st.spans, st.cur_span),
         cur_span       |-> OverlapSentences(st.cur_span, ov) \o <<k>>]
\* the branch that saves the current chunk and starts the next with overlap
CloseState(st, sentence, k, ov) ==
    LET carried == OverlapSentences(st.current_chunk, ov)
        newcur  == carried \o <<sentence>>
    IN  [chunks         |-> Append(st.chunks,
                                   NewChunk(st.chunks, st.current_chunk,
                                            st.current_length, FALSE)),
         current_chunk  |-> newcur,
         current_length |-> SumWords(newcur),
         spans          |-> Append(st.spans, st.cur_span),
         cur_span       |-> OverlapSentences(st.cur_span, ov) \o <<k>>]

\* the else branch
AppendState(st, sentence, k) ==
    [chunks         |-> st.chunks,
     current_chunk  |-> Append(st.current_chunk, sentence),
     current_length |-> st.current_length + WordCount(sentence),
     spans          |-> st.spans,
     cur_span       |-> Append(st.cur_span, k)]

\* variant of FinalState that adds the final chunk twice
FinalStateBroken(st) ==
    IF st.current_chunk # <<>>
    THEN [st EXCEPT !.chunks = Append(Append(st.chunks,
                                             NewChunk(st.chunks, st.current_chunk,
                                                      st.current_length, FALSE)),
                                      NewChunk(Append(st.chunks, st.chunks),
                                               st.current_chunk,
                                               st.current_length, TRUE)),
                    !.spans  = Append(Append(st.spans, st.cur_span), st.cur_span)]
    ELSE st
\* "Add final chunk"
FinalState(st) ==
    IF st.current_chunk # <<>>
    THEN [st EXCEPT !.chunks = Append(st.chunks,
                                      NewChunk(st.chunks, st.current_chunk,
                                               st.current_length, TRUE)),
                    !.spans  = Append(st.spans, st.cur_span)]
    ELSE st

EmptyLoop ==
    [chunks |-> <<>>, current_chunk |-> <<>>, current_length |-> 0,
     spans |-> <<>>, cur_span |-> <<>>]

RECURSIVE LoopFrom(_, _, _, _, _)
LoopFrom(st, sents, k, csize, ov) ==
    IF k > Len(sents) THEN FinalState(st)
    ELSE LoopFrom(IF ShouldClose(st, sents[k], csize)
                  THEN CloseState(st, sents[k], k, ov)
                  ELSE AppendState(st, sents[k], k),
                  sents, k + 1, csize, ov)

\* chunk_document as a function of its arguments
ChunkDocument(t, csize, ov) ==
    LET sents == Sentences(t)
    IN  IF sents = <<>> THEN <<>>
        ELSE LoopFrom(EmptyLoop, sents, 1, csize, ov).chunks

(* --------------------------- similarity scores ------------------------- *)
\* a score is the exact quotient num / den, kept as <<num, den>> with den > 0
RatGT(a, b) == a[1] * b[2] > b[1] * a[2]
RatGE(a, b) == a[1] * b[2] >= b[1] * a[2]
RatEQ(a, b) == a[1] * b[2] = b[1] * a[2]

\* the vectors an embedding model may return: integer norm, so the cosine of
\* two of them is a quotient of integers
Vecs == {<<0, 0>>, <<1, 0>>, <<-1, 0>>, <<3, 4>>}

\* np.dot
Dot(u, v) == u[1] * v[1] + u[2] * v[2]

\* np.linalg.norm
Norm(v) == CHOOSE n \in 0..Dot(v, v) : n * n = Dot(v, v)

\* dot_product / (norm_i * norm_j), computed only when both norms are > 0
Cosine(u, v) == <<Dot(u, v), Norm(u) * Norm(v)>>

\* str.lower() on the characters of the model
Lower(c) == IF c = "A" THEN "a" ELSE IF c = "B" THEN "b" ELSE c
LowerStr(s) == [i \in 1..Len(s) |-> Lower(s[i])]

\* set(s.lower().split())
WordSet(s) == LET ws == PySplit(LowerStr(s)) IN {ws[i] : i \in 1..Len(ws)}

\* variant of Jaccard dividing by the size of the first set
JaccardBroken(a, b) == <<Cardinality(a \cap b), Max(Cardinality(a), 1)>>
\* len(a & b) / max(len(a | b), 1)
Jaccard(a, b) == <<Cardinality(a \cap b), Max(Cardinality(a \cup b), 1)>>

\* the literals 0.8 and 0.2 of the fallback branch
SequentialWeight == <<4, 5>>
KeywordThreshold == <<1, 5>>

\* the branch test of create_graph_edges and retrieve_relevant_chunks:
\* self.embedding_available and self.embedding_model and np is not None
UseEmbedding(avail, model, npmod) ==
    avail /\ model # None /\ npmod # None

(* --------------------------- create_graph_edges ------------------------ *)
\* the inner loop "for j in range(i + 1, len(chunks))" of the embedding branch
RECURSIVE EmbRow(_, _, _, _, _)
EmbRow(chs, vs, thr, i, j) ==
    IF j > Len(chs) THEN <<>>
    ELSE (IF /\ Norm(vs[i]) > 0
             /\ Norm(vs[j]) > 0
             /\ RatGT(Cosine(vs[i], vs[j]), thr)
          THEN <<[source |-> chs[i].id, target |-> chs[j].id,
                  weight |-> Cosine(vs[i], vs[j]),
                  type   |-> "semantic_similarity"]>>
          ELSE <<>>)
         \o EmbRow(chs, vs, thr, i, j + 1)

\* variant of EmbEdgesFrom whose inner loop starts at j = i
RECURSIVE EmbEdgesFromBroken(_, _, _, _)
EmbEdgesFromBroken(chs, vs, thr, i) ==
    IF i > Len(chs) THEN <<>>
    ELSE EmbRow(chs, vs, thr, i, i) \o EmbEdgesFromBroken(chs, vs, thr, i + 1)
\* the outer loop of the embedding branch; vs are the encoded chunk texts
RECURSIVE EmbEdgesFrom(_, _, _, _)
EmbEdgesFrom(chs, vs, thr, i) ==
    IF i > Len(chs) THEN <<>>
    ELSE EmbRow(chs, vs, thr, i, i + 1) \o EmbEdgesFrom(chs, vs, thr, i + 1)

EmbeddingEdges(chs, vs, thr) == EmbEdgesFrom(chs, vs, thr, 1)

\* variant of KeywordRow whose window reaches three positions ahead
RECURSIVE KeywordRowBroken(_, _, _)
KeywordRowBroken(chs, i, j) ==
    IF j > Min(i + 3, Len(chs)) THEN <<>>
    ELSE (IF RatGT(Jaccard(WordSet(chs[i].text), WordSet(chs[j].text)),
                   KeywordThreshold)
          THEN <<[source |-> chs[i].id, target |-> chs[j].id,
                  weight |-> Jaccard(WordSet(chs[i].text), WordSet(chs[j].text)),
                  type   |-> "keyword_overlap"]>>
          ELSE <<>>)
         \o KeywordRowBroken(chs, i, j + 1)
\* "for j in range(i + 1, min(i + 3, len(chunks)))" of the fallback branch
\* (positions here count from 1, so j runs up to min(i + 2, n))
RECURSIVE KeywordRow(_, _, _)
KeywordRow(chs, i, j) ==
    IF j > Min(i + 2, Len(chs)) THEN <<>>
    ELSE (IF RatGT(Jaccard(WordSet(chs[i].text), WordSet(chs[j].text)),
                   KeywordThreshold)
          THEN <<[source |-> chs[i].id, target |-> chs[j].id,
                  weight |-> Jaccard(WordSet(chs[i].text), WordSet(chs[j].text)),
                  type   |-> "keyword_overlap"]>>
          ELSE <<>>)
         \o KeywordRow(chs, i, j + 1)

\* variant of LexEdgesFrom that stops the sequential edges one chunk early
RECURSIVE LexEdgesFromBroken(_, _)
LexEdgesFromBroken(chs, i) ==
    IF i > Len(chs) THEN <<>>
    ELSE (IF i < Len(chs) - 1
          THEN <<[source |-> chs[i].id, target |-> chs[i + 1].id,
                  weight |-> SequentialWeight, type |-> "sequential"]>>
          ELSE <<>>)
         \o KeywordRow(chs, i, i + 1)
         \o LexEdgesFromBroken(chs, i + 1)
\* the loop of the fallback branch
RECURSIVE LexEdgesFrom(_, _)
LexEdgesFrom(chs, i) ==
    IF i > Len(chs) THEN <<>>
    ELSE (IF i < Len(chs)
          THEN <<[source |-> chs[i].id, target |-> chs[i + 1].id,
                  weight |-> SequentialWeight, type |-> "sequential"]>>
          ELSE <<>>)
         \o KeywordRow(chs, i, i + 1)
         \o LexEdgesFrom(chs, i + 1)

LexicalEdges(chs) == LexEdgesFrom(chs, 1)

(* ------------------------ retrieve_relevant_chunks --------------------- *)
\* f"{description} Audience: {audience_type}"
AudienceInfix == <<" ", "A", "u", "d", "i", "e", "n", "c", "e", ":", " ">>
QueryText(desc, aud) == desc \o AudienceInfix \o aud

\* set((description + " " + audience_type).lower().split())
QueryWords(desc, aud) == WordSet(desc \o <<" ">> \o aud)

\* the list "similarities": one pair (position, score) for every chunk whose
\* vector and the query vector both have a norm > 0; positions count from 1
RECURSIVE SimilaritiesFrom(_, _, _)
SimilaritiesFrom(q, vs, i) ==
    IF i > Len(vs) THEN <<>>
    ELSE (IF Norm(q) > 0 /\ Norm(vs[i]) > 0
          THEN <<[i |-> i, score |-> Cosine(q, vs[i])]>>
          ELSE <<>>)
         \o SimilaritiesFrom(q, vs, i + 1)

Similarities(q, vs) == SimilaritiesFrom(q, vs, 1)

\* the list "scores" of the fallback branch
LexScores(chs, qwords) ==
    [i \in 1..Len(chs) |->
        [i |-> i, score |-> Jaccard(qwords, WordSet(chs[i].text))]]

\* variant of InsertDesc that puts a pair before the pairs of equal score
RECURSIVE InsertDescBroken(_, _)
InsertDescBroken(sorted, x) ==
    IF sorted = <<>> THEN <<x>>
    ELSE IF RatGT(Head(sorted).score, x.score)
         THEN <<Head(sorted)>> \o InsertDescBroken(Tail(sorted), x)
         ELSE <<x>> \o sorted

\* list.sort(key=lambda x: x[1], reverse=True): descending and stable
RECURSIVE InsertDesc(_, _)
InsertDesc(sorted, x) ==
    IF sorted = <<>> THEN <<x>>
    ELSE IF RatGE(Head(sorted).score, x.score)
         THEN <<Head(sorted)>> \o InsertDesc(Tail(sorted), x)
         ELSE <<x>> \o sorted

RECURSIVE SortDescFrom(_, _, _)
SortDescFrom(ps, k, acc) ==
    IF k > Len(ps) THEN acc
    ELSE SortDescFrom(ps, k + 1, InsertDesc(acc, ps[k]))

SortDesc(ps) == SortDescFrom(ps, 1, <<>>)

\* seq[:stop] with Python's index rules
PySliceTo(s, stop) ==
    LET n  == Len(s)
        hi == IF stop < 0 THEN Max(n + stop, 0) ELSE Min(stop, n)
    IN  SubSeq(s, 1, hi)

\* chunk = chunks[idx].copy(); chunk['relevance_score'] = score
WithScore(chunk, sc) == [relevance_score |-> sc] @@ chunk

\* the top_k pairs of the sorted list, each turned into a scored copy (the
\* score looked up by next(...) is the one of the pair with that position)
RankedCopies(chs, pairs, k) ==
    LET top == PySliceTo(SortDesc(pairs), k)
    IN  [r \in 1..Len(top) |-> WithScore(chs[top[r].i], top[r].score)]

\* variant of InputAfterCopies for a retriever that scores the passages of the
\* input list themselves
InputAfterCopiesBroken(chs, ranked) ==
    [i \in 1..Len(chs) |->
        IF \E r \in 1..Len(ranked) : ranked[r].id = chs[i].id
        THEN ranked[CHOOSE r \in 1..Len(ranked) : ranked[r].id = chs[i].id]
        ELSE chs[i]]
\* the caller's list after the call: "chunks[idx].copy()" makes a new dict and
\* the score is stored in that one, so chunks[idx] is as it was
InputAfterCopies(chs, ranked) == chs

\* the embedding branch; q and vs are the encoded query and chunk texts
RetrieveEmbedding(chs, q, vs, k) == RankedCopies(chs, Similarities(q, vs), k)

\* the fallback branch
RetrieveLexical(chs, desc, aud, k) ==
    RankedCopies(chs, LexScores(chs, QueryWords(desc, aud)), k)

(* ---------------------- constructor and module import ------------------ *)
\* variant of OnLoadFailure that leaves embedding_available set
OnLoadFailureBroken ==
    [embedding_model |-> None, embedding_available |-> TRUE, raised |-> FALSE]
\* the except clause of __init__: the failure is printed, not re-raised, and
\* embedding_available is set to False
OnLoadFailure ==
    [embedding_model |-> None, embedding_available |-> FALSE, raised |-> FALSE]

\* __init__, given the module flag and whether SentenceTransformer(...) loads
InitEngine(flag, loads) ==
    IF flag
    THEN IF loads
         THEN [embedding_model |-> "model", embedding_available |-> TRUE,
               raised |-> FALSE]
         ELSE OnLoadFailure
    ELSE [embedding_model |-> None, embedding_available |-> FALSE,
          raised |-> FALSE]

(* ---------------------------- process_document ------------------------- *)
\* variant of TextIsFalsy testing "text is None", never true of a str
TextIsFalsyBroken(t) == Len(t) < 0
\* "if not text": true of the empty string only
TextIsFalsy(t) == t = <<>>

(* ------------------------------- state --------------------------------- *)
VARIABLES
    \* frame of chunk_document
    text, chunk_size, overlap, sentences, idx,
    chunks, current_chunk, current_length, spans, cur_span, cpc,
    \* module level of retrieval_gnn.py
    EMBEDDING_AVAILABLE, np,
    \* the GNNRetrieval instance; load_result records what the load did
    embedding_model, embedding_available, load_result,
    \* frame of process_document; graph_branch and rank_branch record the
    \* branch create_graph_edges and retrieve_relevant_chunks took, encoded
    \* the vectors the model has returned for the texts of this call
    pc, description, audience_type, similarity_threshold, top_k,
    edges, relevant_chunks, output_data, graph_branch, rank_branch, encoded,
    \* one evaluation of the keyword overlap of two texts: the texts, the
    \* overlaps computed for them, and the position of the evaluation
    text_i, text_j, overlap_ij, jpc,
    \* two request threads of the web application calling process_document on
    \* the one module-level engine: the frame variables above are those of the
    \* thread that is running, waiting is the frame of the other thread
    running, waiting,
    \* the PDF library the module imported; the images of the PDF of the
    \* running call, the list extract_images_from_pdf returned to it, and the
    \* files of the directory "extracted_images" next to the uploads, each with
    \* the calls that have written it, the last one being its content
    PDF_LIBRARY, pdf_images, images, image_files,
    \* the web layer: the request being handled, len(description) stored in
    \* the submission's retrieval JSON (-1: no such file), len(description) of
    \* the last process_document call (-1: none yet) and the handler that made it
    request, retrieval_json, passed_description, passed_by,
    \* slide_generator.py: the module-level call counter, the number of API
    \* requests issued, and for each request thread its position in
    \* generate_slides and the counter value it has loaded
    _SLIDE_GENERATION_CALL_COUNT, api_requests, tpc, loaded

chunkVars == <<text, chunk_size, overlap, sentences, idx,
               chunks, current_chunk, current_length, spans, cur_span, cpc>>

moduleVars == <<EMBEDDING_AVAILABLE, np>>

engineVars == <<embedding_model, embedding_available, load_result>>

callVars == <<pc, description, audience_type, similarity_threshold, top_k,
              edges, relevant_chunks, output_data, graph_branch, rank_branch,
              encoded>>

simVars == <<text_i, text_j, overlap_ij, jpc>>

webVars == <<request, retrieval_json, passed_description, passed_by>>

counterVars == <<_SLIDE_GENERATION_CALL_COUNT, api_requests, tpc, loaded>>

appVars == <<running, waiting, PDF_LIBRARY, pdf_images, images, image_files,
             webVars, counterVars>>

vars == <<chunkVars, moduleVars, engineVars, callVars, simVars, appVars>>

\* variant of ProcessingMethod reading the module flag, not the instance
ProcessingMethodBroken(avail, model) ==
    IF EMBEDDING_AVAILABLE THEN "embedding" ELSE "keyword"
\* "embedding" if self.embedding_available and self.embedding_model else "keyword"
ProcessingMethod(avail, model) ==
    IF avail /\ model # None THEN "embedding" ELSE "keyword"

Texts == UNION {[1..n -> Alphabet] : n \in 0..MaxLen}
ChunkSizes == 0..MaxChunkSize
Overlaps == -1..MaxOverlap

LoopState ==
    [chunks |-> chunks, current_chunk |-> current_chunk,
     current_length |-> current_length, spans |-> spans, cur_span |-> cur_span]

SetLoopState(st) ==
    /\ chunks' = st.chunks
    /\ current_chunk' = st.current_chunk
    /\ current_length' = st.current_length
    /\ spans' = st.spans
    /\ cur_span' = st.cur_span

\* the model's memory of encode(): no text encoded yet
EmptyFn == [t \in {} |-> <<0, 0>>]

\* the local "images" of process_document before it is assigned
NoImages == [assigned |-> FALSE, ids |-> {}]

\* the model's directory of extracted images: no file written yet
NoFiles == [n \in {} |-> <<>>]

\* no request
NoRequest ==
    [kind |-> "none", audience_type |-> 0,
     description |-> [lead |-> 0, core |-> 0],
     feedback_type |-> "", feedback |-> 0, original_description |-> 0]

\* the web routes are not being exercised
NoWeb ==
    /\ request = NoRequest
    /\ retrieval_json = -1
    /\ passed_description = -1
    /\ passed_by = "none"

\* no thread is in generate_slides
NoCounter ==
    /\ _SLIDE_GENERATION_CALL_COUNT = 0
    /\ api_requests = 0
    /\ tpc = <<>>
    /\ loaded = <<>>

\* no web request is being served; PyPDF2 was imported, with which
\* extract_images_from_pdf writes no file and returns []
NoApp ==
    /\ NoWeb
    /\ NoCounter
    /\ running = 0
    /\ waiting = None
    /\ PDF_LIBRARY = "PyPDF2"
    /\ pdf_images = {}
    /\ images = NoImages
    /\ image_files = NoFiles

\* no overlap evaluation is under way
NoSim ==
    /\ text_i = <<>>
    /\ text_j = <<>>
    /\ overlap_ij = None
    /\ jpc = "none"

\* a direct call of chunk_document: no engine state is read or written
NoEngine ==
    /\ NoSim
    /\ NoApp
    /\ EMBEDDING_AVAILABLE = FALSE
    /\ np = None
    /\ embedding_model = None
    /\ embedding_available = FALSE
    /\ load_result = "not_tried"
    /\ pc = "none"
    /\ description = <<>>
    /\ audience_type = <<>>
    /\ similarity_threshold = <<0, 1>>
    /\ top_k = 0
    /\ edges = <<>>
    /\ relevant_chunks = <<>>
    /\ output_data = None
    /\ graph_branch = "none"
    /\ rank_branch = "none"
    /\ encoded = EmptyFn

(* ------------------- chunk_document, one step at a time ---------------- *)
\* a call chunk_document(text, chunk_size, overlap)
InitChunk ==
    /\ text \in Texts
    /\ chunk_size \in ChunkSizes
    /\ overlap \in Overlaps
    /\ sentences = <<>>
    /\ idx = 0
    /\ chunks = <<>>
    /\ current_chunk = <<>>
    /\ current_length = 0
    /\ spans = <<>>
    /\ cur_span = <<>>
    /\ cpc = "call"
    /\ NoEngine

\* the split into sentences; "if not sentences: return []"
SplitSentences ==
    /\ cpc = "call"
    /\ sentences' = Sentences(text)
    /\ idx' = 1
    /\ cpc' = IF Sentences(text) = <<>> THEN "done" ELSE "loop"
    /\ UNCHANGED <<text, chunk_size, overlap,
                   chunks, current_chunk, current_length, spans, cur_span>>
    /\ UNCHANGED <<moduleVars, appVars, simVars, engineVars, callVars>>

\* one iteration of the for loop taking the if branch
LoopClose ==
    /\ cpc = "loop"
    /\ idx <= Len(sentences)
    /\ ShouldClose(LoopState, sentences[idx], chunk_size)
    /\ SetLoopState(CloseState(LoopState, sentences[idx], idx, overlap))
    /\ idx' = idx + 1
    /\ UNCHANGED <<text, chunk_size, overlap, sentences, cpc>>
    /\ UNCHANGED <<moduleVars, appVars, simVars, engineVars, callVars>>

\* one iteration of the for loop taking the else branch
LoopAppend ==
    /\ cpc = "loop"
    /\ idx <= Len(sentences)
    /\ ~ShouldClose(LoopState, sentences[idx], chunk_size)
    /\ SetLoopState(AppendState(LoopState, sentences[idx], idx))
    /\ idx' = idx + 1
    /\ UNCHANGED <<text, chunk_size, overlap, sentences, cpc>>
    /\ UNCHANGED <<moduleVars, appVars, simVars, engineVars, callVars>>

\* after the loop: the final chunk and the return
FinalChunk ==
    /\ cpc = "loop"
    /\ idx > Len(sentences)
    /\ SetLoopState(FinalState(LoopState))
    /\ cpc' = "done"
    /\ UNCHANGED <<text, chunk_size, overlap, sentences, idx>>
    /\ UNCHANGED <<moduleVars, appVars, simVars, engineVars, callVars>>

NextChunk == SplitSentences \/ LoopClose \/ LoopAppend \/ FinalChunk

SpecChunk == InitChunk /\ [][NextChunk]_vars

\* calls of chunk_document that keep running until they return
MaxFairLen == 5

FairTexts == UNION {[1..n -> Alphabet] : n \in 0..MaxFairLen}

InitChunkFair ==
    /\ text \in FairTexts
    /\ chunk_size \in ChunkSizes
    /\ overlap \in Overlaps
    /\ sentences = <<>>
    /\ idx = 0
    /\ chunks = <<>>
    /\ current_chunk = <<>>
    /\ current_length = 0
    /\ spans = <<>>
    /\ cur_span = <<>>
    /\ cpc = "call"
    /\ NoEngine

SpecChunkFair == InitChunkFair /\ [][NextChunk]_vars /\ WF_vars(NextChunk)

(* ------------------ engine life cycle and process_document ------------ *)
MaxSent == 3
MaxTopK == 2
DefaultChunkSize == 500
DefaultOverlap == 3

\* the sentences documents are made of
SentenceVocab == {<<"a", ".">>, <<"B", " ", "a", ".">>}

\* what extract_text_from_pdf returns: "" for a PDF without text, otherwise
\* the page text followed by "\n" (the page text may be blank)
PdfTexts ==
    {<<>>, <<" ", "\n">>} \cup
    {Join(ss) \o <<"\n">> :
        ss \in UNION {[1..n -> SentenceVocab] : n \in 1..MaxSent}}

CallChunkSizes == {1, DefaultChunkSize}
CallOverlaps == {1, DefaultOverlap}
Descriptions == {<<"a", ".">>}
Audiences == {<<"b">>}
Thresholds == {<<-1, 1>>, <<1, 2>>, <<3, 5>>}
TopKs == 0..MaxTopK

\* the module is imported: the try/except around the imports
Init ==
    /\ EMBEDDING_AVAILABLE \in BOOLEAN
    /\ np = IF EMBEDDING_AVAILABLE THEN "numpy" ELSE None
    /\ embedding_model = None
    /\ embedding_available = FALSE
    /\ load_result = "not_tried"
    /\ pc = "new"
    /\ text = <<>>
    /\ chunk_size = DefaultChunkSize
    /\ overlap = DefaultOverlap
    /\ sentences = <<>>
    /\ idx = 0
    /\ chunks = <<>>
    /\ current_chunk = <<>>
    /\ current_length = 0
    /\ spans = <<>>
    /\ cur_span = <<>>
    /\ cpc = "none"
    /\ description = <<>>
    /\ audience_type = <<>>
    /\ similarity_threshold = <<1, 2>>
    /\ top_k = 0
    /\ edges = <<>>
    /\ relevant_chunks = <<>>
    /\ output_data = None
    /\ graph_branch = "none"
    /\ rank_branch = "none"
    /\ encoded = EmptyFn
    /\ NoSim
    /\ NoApp

chunkLocals == <<sentences, idx, current_chunk, current_length, spans,
                 cur_span, cpc>>

\* GNNRetrieval(): the constructor
Construct ==
    /\ pc = "new"
    /\ \E loads \in BOOLEAN :
         LET r == InitEngine(EMBEDDING_AVAILABLE, loads)
         IN  /\ embedding_model' = r.embedding_model
             /\ embedding_available' = r.embedding_available
             /\ load_result' = IF ~EMBEDDING_AVAILABLE THEN "not_tried"
                               ELSE IF loads THEN "ok" ELSE "failed"
             /\ pc' = IF r.raised THEN "init_raised" ELSE "idle"
    /\ UNCHANGED <<chunkVars, moduleVars, appVars, simVars, description, audience_type,
                   similarity_threshold, top_k, edges, relevant_chunks,
                   output_data, graph_branch, rank_branch, encoded>>

\* a caller enters process_document; text is what the PDF will yield
ProcessDocument ==
    /\ pc = "idle"
    /\ text' \in PdfTexts
    /\ chunk_size' \in CallChunkSizes
    /\ overlap' \in CallOverlaps
    /\ description' \in Descriptions
    /\ audience_type' \in Audiences
    /\ similarity_threshold' \in Thresholds
    /\ top_k' \in TopKs
    /\ chunks' = <<>>
    /\ edges' = <<>>
    /\ relevant_chunks' = <<>>
    /\ output_data' = None
    /\ graph_branch' = "none"
    /\ rank_branch' = "none"
    /\ encoded' = EmptyFn
    /\ pc' = "extract"
    /\ UNCHANGED <<chunkLocals, moduleVars, appVars, simVars, engineVars>>

callArgs == <<text, chunk_size, overlap, description, audience_type,
              similarity_threshold, top_k>>

\* Step 1: text = extract_text_from_pdf(...); if not text: raise ValueError
ExtractText ==
    /\ pc = "extract"
    /\ pc' = IF TextIsFalsy(text) THEN "raised" ELSE "chunk"
    /\ UNCHANGED <<callArgs, chunks, chunkLocals, moduleVars, appVars, simVars, engineVars,
                   edges, relevant_chunks, output_data, graph_branch,
                   rank_branch, encoded>>

\* Step 2: chunks = self.chunk_document(text, chunk_size, overlap)
ChunkStep ==
    /\ pc = "chunk"
    /\ chunks' = ChunkDocument(text, chunk_size, overlap)
    /\ pc' = "graph"
    /\ UNCHANGED <<callArgs, chunkLocals, moduleVars, appVars, simVars, engineVars,
                   edges, relevant_chunks, output_data, graph_branch,
                   rank_branch, encoded>>

\* self.embedding_model.encode(texts): a text already encoded keeps its
\* vector, a new text gets any vector of Vecs
Encodes(txts) ==
    \E f \in [txts \ DOMAIN encoded -> Vecs] :
        encoded' = [t \in DOMAIN encoded \cup txts |->
                        IF t \in DOMAIN encoded THEN encoded[t] ELSE f[t]]

ChunkTexts(chs) == {chs[i].text : i \in 1..Len(chs)}

\* Step 3, embedding branch of create_graph_edges
GraphEmbedding ==
    /\ pc = "graph"
    /\ UseEmbedding(embedding_available, embedding_model, np)
    /\ Encodes(ChunkTexts(chunks))
    /\ edges' = EmbeddingEdges(chunks,
                               [i \in 1..Len(chunks) |-> encoded'[chunks[i].text]],
                               similarity_threshold)
    /\ graph_branch' = "embedding"
    /\ pc' = "rank"
    /\ UNCHANGED <<callArgs, chunks, chunkLocals, moduleVars, appVars, simVars, engineVars,
                   relevant_chunks, output_data, rank_branch>>

\* Step 3, fallback branch of create_graph_edges
GraphLexical ==
    /\ pc = "graph"
    /\ ~UseEmbedding(embedding_available, embedding_model, np)
    /\ edges' = LexicalEdges(chunks)
    /\ graph_branch' = "keyword"
    /\ pc' = "rank"
    /\ UNCHANGED <<callArgs, chunks, chunkLocals, moduleVars, appVars, simVars, engineVars,
                   relevant_chunks, output_data, rank_branch, encoded>>

\* Step 4, "if not chunks: return []"
RankEmpty ==
    /\ pc = "rank"
    /\ chunks = <<>>
    /\ relevant_chunks' = <<>>
    /\ rank_branch' = "none"
    /\ pc' = "assemble"
    /\ UNCHANGED <<callArgs, chunks, chunkLocals, moduleVars, appVars, simVars, engineVars,
                   edges, output_data, graph_branch, encoded>>

\* variant of RankEmbedding that returns passages only when the graph has edges
RankEmbeddingBroken ==
    /\ pc = "rank"
    /\ chunks # <<>>
    /\ UseEmbedding(embedding_available, embedding_model, np)
    /\ Encodes(ChunkTexts(chunks) \cup {QueryText(description, audience_type)})
    /\ relevant_chunks' =
          RetrieveEmbedding(chunks,
                            encoded'[QueryText(description, audience_type)],
                            [i \in 1..Len(chunks) |-> encoded'[chunks[i].text]],
                            IF edges = <<>> THEN 0 ELSE top_k)
    /\ chunks' = InputAfterCopies(chunks, relevant_chunks')
    /\ rank_branch' = "embedding"
    /\ pc' = "assemble"
    /\ UNCHANGED <<callArgs, chunkLocals, moduleVars, appVars, simVars,
                   engineVars, edges, output_data, graph_branch>>
\* Step 4, embedding branch of retrieve_relevant_chunks
RankEmbedding ==
    /\ pc = "rank"
    /\ chunks # <<>>
    /\ UseEmbedding(embedding_available, embedding_model, np)
    /\ Encodes(ChunkTexts(chunks) \cup {QueryText(description, audience_type)})
    /\ relevant_chunks' =
          RetrieveEmbedding(chunks,
                            encoded'[QueryText(description, audience_type)],
                            [i \in 1..Len(chunks) |-> encoded'[chunks[i].text]],
                            top_k)
    /\ chunks' = InputAfterCopies(chunks, relevant_chunks')
    /\ rank_branch' = "embedding"
    /\ pc' = "assemble"
    /\ UNCHANGED <<callArgs, chunkLocals, moduleVars, appVars, simVars, engineVars,
                   edges, output_data, graph_branch>>

\* Step 4, fallback branch of retrieve_relevant_chunks
RankLexical ==
    /\ pc = "rank"
    /\ chunks # <<>>
    /\ ~UseEmbedding(embedding_available, embedding_model, np)
    /\ relevant_chunks' = RetrieveLexical(chunks, description, audience_type, top_k)
    /\ chunks' = InputAfterCopies(chunks, relevant_chunks')
    /\ rank_branch' = "keyword"
    /\ pc' = "assemble"
    /\ UNCHANGED <<callArgs, chunkLocals, moduleVars, appVars, simVars, engineVars,
                   edges, output_data, graph_branch, encoded>>

\* variant of OutputData that reports the number of chunks as total_edges
OutputDataBroken(desc, aud, chs, es, rel, method) ==
    [metadata |->
        [description           |-> desc,
         audience_type         |-> aud,
         total_chunks          |-> Len(chs),
         relevant_chunks_count |-> Len(rel),
         total_edges           |-> Len(chs),
         processing_method     |-> method],
     graph_structure |-> [nodes |-> chs, edges |-> es],
     relevant_chunks |-> rel]
\* the dict "output_data" (pdf_path, the images and the timestamp left out)
OutputData(desc, aud, chs, es, rel, method) ==
    [metadata |->
        [description           |-> desc,
         audience_type         |-> aud,
         total_chunks          |-> Len(chs),
         relevant_chunks_count |-> Len(rel),
         total_edges           |-> Len(es),
         processing_method     |-> method],
     graph_structure |-> [nodes |-> chs, edges |-> es],
     relevant_chunks |-> rel]

\* Step 5: the output structure, and the return
Assemble ==
    /\ pc = "assemble"
    /\ output_data' =
          OutputData(description, audience_type, chunks, edges, relevant_chunks,
                     ProcessingMethod(embedding_available, embedding_model))
    /\ pc' = "returned"
    /\ UNCHANGED <<callArgs, chunks, chunkLocals, moduleVars, appVars, simVars, engineVars,
                   edges, relevant_chunks, graph_branch, rank_branch, encoded>>

\* the caller has the record or the exception; the frame is dropped and the
\* engine is free for the next call
Return ==
    /\ pc \in {"returned", "raised"}
    /\ text' = <<>>
    /\ chunk_size' = DefaultChunkSize
    /\ overlap' = DefaultOverlap
    /\ description' = <<>>
    /\ audience_type' = <<>>
    /\ similarity_threshold' = <<1, 2>>
    /\ top_k' = 0
    /\ chunks' = <<>>
    /\ edges' = <<>>
    /\ relevant_chunks' = <<>>
    /\ output_data' = None
    /\ graph_branch' = "none"
    /\ rank_branch' = "none"
    /\ encoded' = EmptyFn
    /\ pc' = "idle"
    /\ UNCHANGED <<chunkLocals, moduleVars, appVars, simVars, engineVars>>

Next ==
    \/ Construct
    \/ ProcessDocument
    \/ ExtractText
    \/ ChunkStep
    \/ GraphEmbedding
    \/ GraphLexical
    \/ RankEmpty
    \/ RankEmbedding
    \/ RankLexical
    \/ Assemble
    \/ Return

Spec == Init /\ [][Next]_vars

(* ------------- process_document on an engine in lexical mode ---------- *)
MaxLexSent == 4

LexVocab == {<<"a", ".">>, <<"B", " ", "a", ".">>, <<"c", ".">>}

LexTexts ==
    {<<" ", "\n">>} \cup
    {Join(ss) \o <<"\n">> :
        ss \in UNION {[1..n -> LexVocab] : n \in 1..MaxLexSent}}

LexChunkSizes == 1..MaxChunkSize
LexDescriptions == {<<"a", ".">>, <<"B">>}

\* a call of process_document that has passed the text check, on an engine
\* constructed without the embedding model (import failed or load failed)
InitLex ==
    /\ EMBEDDING_AVAILABLE \in BOOLEAN
    /\ np = IF EMBEDDING_AVAILABLE THEN "numpy" ELSE None
    /\ embedding_model = None
    /\ embedding_available = FALSE
    /\ load_result = IF EMBEDDING_AVAILABLE THEN "failed" ELSE "not_tried"
    /\ pc = "chunk"
    /\ text \in LexTexts
    /\ chunk_size \in LexChunkSizes
    /\ overlap \in CallOverlaps
    /\ description \in LexDescriptions
    /\ audience_type \in Audiences
    /\ similarity_threshold \in Thresholds
    /\ top_k \in TopKs
    /\ sentences = <<>>
    /\ idx = 0
    /\ chunks = <<>>
    /\ current_chunk = <<>>
    /\ current_length = 0
    /\ spans = <<>>
    /\ cur_span = <<>>
    /\ cpc = "none"
    /\ edges = <<>>
    /\ relevant_chunks = <<>>
    /\ output_data = None
    /\ graph_branch = "none"
    /\ rank_branch = "none"
    /\ encoded = EmptyFn
    /\ NoSim
    /\ NoApp

NextLex ==
    \/ ChunkStep
    \/ GraphLexical
    \/ RankEmpty
    \/ RankLexical

SpecLex == InitLex /\ [][NextLex]_vars

(* ------- two process_document calls on the shared engine instance ----- *)
\* the documents, thresholds and result sizes of the two requests
TwoPdfs ==
    {[text |-> <<" ", "\n">>, images |-> {}],
     [text |-> <<"a", ".", " ", "B", " ", "a", ".", "\n">>,
      images |-> {"page1_img1"}],
     [text |-> <<"B", " ", "a", ".", " ", "a", ".", "\n">>,
      images |-> {"page1_img1"}]}
TwoThresholds == {<<-1, 1>>, <<3, 5>>}
TwoTopKs == {1}

\* the local variables of one process_document call
Frame ==
    [pc |-> pc, text |-> text, chunk_size |-> chunk_size, overlap |-> overlap,
     description |-> description, audience_type |-> audience_type,
     similarity_threshold |-> similarity_threshold, top_k |-> top_k,
     chunks |-> chunks, edges |-> edges, relevant_chunks |-> relevant_chunks,
     output_data |-> output_data, graph_branch |-> graph_branch,
     rank_branch |-> rank_branch, pdf_images |-> pdf_images,
     images |-> images]

\* retrieval_system = GNNRetrieval() has run at import of the web module; two
\* request threads are about to call process_document on it
InitTwo ==
    /\ EMBEDDING_AVAILABLE \in BOOLEAN
    /\ np = IF EMBEDDING_AVAILABLE THEN "numpy" ELSE None
    /\ embedding_model = InitEngine(EMBEDDING_AVAILABLE, TRUE).embedding_model
    /\ embedding_available =
          InitEngine(EMBEDDING_AVAILABLE, TRUE).embedding_available
    /\ load_result = IF EMBEDDING_AVAILABLE THEN "ok" ELSE "not_tried"
    /\ pc = "idle"
    /\ text = <<>>
    /\ chunk_size = DefaultChunkSize
    /\ overlap = DefaultOverlap
    /\ description = <<>>
    /\ audience_type = <<>>
    /\ similarity_threshold = <<1, 2>>
    /\ top_k = 0
    /\ sentences = <<>>
    /\ idx = 0
    /\ chunks = <<>>
    /\ current_chunk = <<>>
    /\ current_length = 0
    /\ spans = <<>>
    /\ cur_span = <<>>
    /\ cpc = "none"
    /\ edges = <<>>
    /\ relevant_chunks = <<>>
    /\ output_data = None
    /\ graph_branch = "none"
    /\ rank_branch = "none"
    /\ encoded = EmptyFn
    /\ NoSim
    /\ PDF_LIBRARY \in {"PyPDF2", "pdfplumber"}
    /\ pdf_images = {}
    /\ images = NoImages
    /\ image_files = NoFiles
    /\ NoWeb
    /\ NoCounter
    /\ running = 1
    /\ waiting = Frame

\* the running thread enters process_document
EnterCall ==
    /\ pc = "idle"
    /\ \E pdf \in TwoPdfs :
          /\ text' = pdf.text
          /\ pdf_images' = pdf.images
    /\ chunk_size' = 1
    /\ overlap' = 1
    /\ description' \in Descriptions
    /\ audience_type' \in Audiences
    /\ similarity_threshold' \in TwoThresholds
    /\ top_k' \in TwoTopKs
    /\ pc' = "extract"
    /\ UNCHANGED <<chunks, chunkLocals, moduleVars, simVars, engineVars,
                   edges, relevant_chunks, output_data, graph_branch,
                   rank_branch, encoded>>
    /\ UNCHANGED <<running, waiting, PDF_LIBRARY, images, image_files,
                   webVars, counterVars>>

\* img_filename = f"page{page_idx+1}_img{img_idx+1}.png" in images_dir, which
\* is the directory "extracted_images" next to the uploaded PDF, the same
\* directory for every upload; a file written again gets the new content
WriteImages(files, names, who) ==
    [n \in DOMAIN files \cup names |->
        IF n \in names
        THEN (IF n \in DOMAIN files THEN files[n] ELSE <<>>) \o <<who>>
        ELSE files[n]]

\* Step 1b: images = self.extract_images_from_pdf(pdf_path, images_dir);
\* only the pdfplumber branch crops and saves the images of the pages
ExtractImages ==
    /\ pc = "chunk"
    /\ ~images.assigned
    /\ images' = [assigned |-> TRUE,
                  ids |-> IF PDF_LIBRARY = "pdfplumber" THEN pdf_images ELSE {}]
    /\ image_files' = IF PDF_LIBRARY = "pdfplumber"
                      THEN WriteImages(image_files, pdf_images, running)
                      ELSE image_files
    /\ UNCHANGED <<chunkVars, moduleVars, simVars, engineVars, callVars>>
    /\ UNCHANGED <<running, waiting, PDF_LIBRARY, pdf_images, webVars,
                   counterVars>>

\* Step 2, once the images are extracted
TwoChunkStep == images.assigned /\ ChunkStep

\* the interpreter switches threads: the running call's locals are set aside
\* and the other call's locals become current; the engine, the module
\* globals and the encoder are the same objects for both
Switch ==
    /\ running \in {1, 2}
    /\ running' = 3 - running
    /\ waiting' = Frame
    /\ pc' = waiting.pc
    /\ text' = waiting.text
    /\ chunk_size' = waiting.chunk_size
    /\ overlap' = waiting.overlap
    /\ description' = waiting.description
    /\ audience_type' = waiting.audience_type
    /\ similarity_threshold' = waiting.similarity_threshold
    /\ top_k' = waiting.top_k
    /\ chunks' = waiting.chunks
    /\ edges' = waiting.edges
    /\ relevant_chunks' = waiting.relevant_chunks
    /\ output_data' = waiting.output_data
    /\ graph_branch' = waiting.graph_branch
    /\ rank_branch' = waiting.rank_branch
    /\ pdf_images' = waiting.pdf_images
    /\ images' = waiting.images
    /\ UNCHANGED <<chunkLocals, moduleVars, simVars, engineVars, encoded,
                   PDF_LIBRARY, image_files, webVars, counterVars>>

NextTwo ==
    \/ EnterCall
    \/ ExtractText
    \/ ExtractImages
    \/ TwoChunkStep
    \/ GraphEmbedding
    \/ GraphLexical
    \/ RankEmpty
    \/ RankEmbedding
    \/ RankLexical
    \/ Assemble
    \/ Switch

SpecTwo == InitTwo /\ [][NextTwo]_vars

(* ------------------- the keyword overlap of two texts ------------------ *)
MaxSimLen == 3

SimAlphabet == {"a", "A", "b", " "}
SimTexts == UNION {[1..n -> SimAlphabet] : n \in 0..MaxSimLen}

NoChunking ==
    /\ text = <<>>
    /\ chunk_size = DefaultChunkSize
    /\ overlap = DefaultOverlap
    /\ sentences = <<>>
    /\ idx = 0
    /\ chunks = <<>>
    /\ current_chunk = <<>>
    /\ current_length = 0
    /\ spans = <<>>
    /\ cur_span = <<>>
    /\ cpc = "none"

\* two texts whose overlap is to be computed
InitJaccard ==
    /\ text_i \in SimTexts
    /\ text_j \in SimTexts
    /\ overlap_ij = None
    /\ jpc = "call"
    /\ NoChunking
    /\ NoApp
    /\ EMBEDDING_AVAILABLE = FALSE
    /\ np = None
    /\ embedding_model = None
    /\ embedding_available = FALSE
    /\ load_result = "not_tried"
    /\ pc = "none"
    /\ description = <<>>
    /\ audience_type = <<>>
    /\ similarity_threshold = <<0, 1>>
    /\ top_k = 0
    /\ edges = <<>>
    /\ relevant_chunks = <<>>
    /\ output_data = None
    /\ graph_branch = "none"
    /\ rank_branch = "none"
    /\ encoded = EmptyFn

\* words_i = set(text_i.lower().split()), the same for j, and
\* overlap = len(words_i & words_j) / max(len(words_i | words_j), 1),
\* evaluated for the pairs (i, j), (j, i) and (i, i)
ComputeOverlap ==
    /\ jpc = "call"
    /\ overlap_ij' = [ij |-> Jaccard(WordSet(text_i), WordSet(text_j)),
                      ji |-> Jaccard(WordSet(text_j), WordSet(text_i)),
                      ii |-> Jaccard(WordSet(text_i), WordSet(text_i))]
    /\ jpc' = "done"
    /\ UNCHANGED <<text_i, text_j, chunkVars, moduleVars, appVars, engineVars, callVars>>

NextJaccard == ComputeOverlap

SpecJaccard == InitJaccard /\ [][NextJaccard]_vars

(* ------------- the web layer: descriptions passed to retrieval --------- *)
\* "if len(description) > 1000"
MaxDescriptionChars == 1000

\* texts are kept by their lengths: a form field is `lead` whitespace
\* characters followed by `core` characters that strip() keeps
DescriptionLens == {0, 1, MaxDescriptionChars, MaxDescriptionChars + 1}
FormDescriptions == [lead : {0, 1}, core : DescriptionLens]
FeedbackLens == {0, 1, MaxDescriptionChars + 1}
FeedbackTypes == {"", "content", "style", "information", "other"}

\* len(text.strip())
StripLen(field) == field.core

\* the engine is not in use by the model of the routes
NoRetrieval ==
    /\ NoChunking
    /\ NoSim
    /\ EMBEDDING_AVAILABLE = FALSE
    /\ np = None
    /\ embedding_model = None
    /\ embedding_available = FALSE
    /\ load_result = "not_tried"
    /\ pc = "none"
    /\ description = <<>>
    /\ audience_type = <<>>
    /\ similarity_threshold = <<0, 1>>
    /\ top_k = 0
    /\ edges = <<>>
    /\ relevant_chunks = <<>>
    /\ output_data = None
    /\ graph_branch = "none"
    /\ rank_branch = "none"
    /\ encoded = EmptyFn
    /\ running = 0
    /\ waiting = None
    /\ PDF_LIBRARY = "PyPDF2"
    /\ pdf_images = {}
    /\ images = NoImages
    /\ image_files = NoFiles

retrievalVars == <<chunkVars, moduleVars, engineVars, callVars, simVars,
                   running, waiting, PDF_LIBRARY, pdf_images, images,
                   image_files>>

InitWeb ==
    /\ NoRetrieval
    /\ NoWeb
    /\ NoCounter

\* POST /api/submit with a PDF file, an audience type and a description
ReceiveSubmit ==
    /\ request.kind = "none"
    /\ \E a \in {0, 1}, desc \in FormDescriptions :
          request' = [NoRequest EXCEPT !.kind = "submit",
                                       !.audience_type = a,
                                       !.description = desc]
    /\ UNCHANGED <<retrieval_json, passed_description, passed_by>>
    /\ UNCHANGED <<retrievalVars, counterVars>>

\* POST /api/feedback for the submission
ReceiveFeedback ==
    /\ request.kind = "none"
    /\ \E ft \in FeedbackTypes, fb \in FeedbackLens, od \in FeedbackLens :
          request' = [NoRequest EXCEPT !.kind = "feedback",
                                       !.feedback_type = ft,
                                       !.feedback = fb,
                                       !.original_description = od]
    /\ UNCHANGED <<retrieval_json, passed_description, passed_by>>
    /\ UNCHANGED <<retrievalVars, counterVars>>

\* submit_form: the audience type and the description are stripped and
\* checked, then process_document runs with the description; its record is
\* saved as the submission's retrieval JSON unless it raised
SubmitForm ==
    /\ request.kind = "submit"
    /\ request' = NoRequest
    /\ IF \/ request.audience_type = 0
          \/ StripLen(request.description) = 0
          \/ StripLen(request.description) > MaxDescriptionChars
       THEN UNCHANGED <<retrieval_json, passed_description, passed_by>>
       ELSE /\ passed_description' = StripLen(request.description)
            /\ passed_by' = "submit_form"
            /\ \E raised \in BOOLEAN :
                  retrieval_json' = IF raised THEN retrieval_json
                                    ELSE StripLen(request.description)
    /\ UNCHANGED <<retrievalVars, counterVars>>

\* updated_description = feedback_text if feedback_text
\*                       else original_description or original_desc
UpdatedDescription(feedback_text, original_description, original_desc) ==
    IF feedback_text > 0 THEN feedback_text
    ELSE IF original_description > 0 THEN original_description
    ELSE original_desc

\* handle_feedback: for feedback of type content process_document runs again
\* with the updated description and its record replaces the retrieval JSON
HandleFeedback ==
    /\ request.kind = "feedback"
    /\ request' = NoRequest
    /\ IF \/ request.feedback_type = ""
          \/ retrieval_json = -1
          \/ request.feedback_type # "content"
       THEN UNCHANGED <<retrieval_json, passed_description, passed_by>>
       ELSE LET updated_description ==
                    UpdatedDescription(request.feedback,
                                       request.original_description,
                                       retrieval_json)
            IN  /\ passed_description' = updated_description
                /\ passed_by' = "handle_feedback"
                /\ \E raised \in BOOLEAN :
                      retrieval_json' = IF raised THEN retrieval_json
                                        ELSE updated_description
    /\ UNCHANGED <<retrievalVars, counterVars>>

NextWeb ==
    \/ ReceiveSubmit
    \/ ReceiveFeedback
    \/ SubmitForm
    \/ HandleFeedback

SpecWeb == InitWeb /\ [][NextWeb]_vars

(* ---------------- slide_generator.py: the API call counter ------------- *)
NumThreads == 2
Threads == 1..NumThreads

_MAX_SLIDE_GENERATION_CALLS == 6

\* the module is imported and no request thread is in generate_slides
InitCounter ==
    /\ NoRetrieval
    /\ NoWeb
    /\ _SLIDE_GENERATION_CALL_COUNT = 0
    /\ api_requests = 0
    /\ tpc = [t \in Threads |-> "idle"]
    /\ loaded = [t \in Threads |-> 0]

\* a request thread reaches "if not increment_slide_generation_call_count()"
GenerateSlides(t) ==
    /\ tpc[t] = "idle"
    /\ tpc' = [tpc EXCEPT ![t] = "test"]
    /\ UNCHANGED <<_SLIDE_GENERATION_CALL_COUNT, api_requests, loaded>>
    /\ UNCHANGED <<retrievalVars, webVars>>

\* if _SLIDE_GENERATION_CALL_COUNT < _MAX_SLIDE_GENERATION_CALLS: ...
\* otherwise return False
TestLimit(t) ==
    /\ tpc[t] = "test"
    /\ tpc' = [tpc EXCEPT ![t] =
                  IF _SLIDE_GENERATION_CALL_COUNT < _MAX_SLIDE_GENERATION_CALLS
                  THEN "load" ELSE "fallback"]
    /\ UNCHANGED <<_SLIDE_GENERATION_CALL_COUNT, api_requests, loaded>>
    /\ UNCHANGED <<retrievalVars, webVars>>

\* "_SLIDE_GENERATION_CALL_COUNT += 1", first half: the global is read
LoadCount(t) ==
    /\ tpc[t] = "load"
    /\ loaded' = [loaded EXCEPT ![t] = _SLIDE_GENERATION_CALL_COUNT]
    /\ tpc' = [tpc EXCEPT ![t] = "store"]
    /\ UNCHANGED <<_SLIDE_GENERATION_CALL_COUNT, api_requests>>
    /\ UNCHANGED <<retrievalVars, webVars>>

\* second half: the sum is stored in the global; return True
StoreCount(t) ==
    /\ tpc[t] = "store"
    /\ _SLIDE_GENERATION_CALL_COUNT' = loaded[t] + 1
    /\ tpc' = [tpc EXCEPT ![t] = "api"]
    /\ UNCHANGED <<api_requests, loaded>>
    /\ UNCHANGED <<retrievalVars, webVars>>

\* self.client.models.generate_content(...): the API request
CallApi(t) ==
    /\ tpc[t] = "api"
    /\ api_requests' = api_requests + 1
    /\ tpc' = [tpc EXCEPT ![t] = "idle"]
    /\ UNCHANGED <<_SLIDE_GENERATION_CALL_COUNT, loaded>>
    /\ UNCHANGED <<retrievalVars, webVars>>

\* the limit was reached: fallback slides are returned without an API request
Fallback(t) ==
    /\ tpc[t] = "fallback"
    /\ tpc' = [tpc EXCEPT ![t] = "idle"]
    /\ UNCHANGED <<_SLIDE_GENERATION_CALL_COUNT, api_requests, loaded>>
    /\ UNCHANGED <<retrievalVars, webVars>>

NextCounter ==
    \E t \in Threads :
        \/ GenerateSlides(t)
        \/ TestLimit(t)
        \/ LoadCount(t)
        \/ StoreCount(t)
        \/ CallApi(t)
        \/ Fallback(t)

SpecCounter == InitCounter /\ [][NextCounter]_vars

(* ------------------------- chunk_document: claims ---------------------- *)
\* the positions p of span sp that hold sentence number s
PosIn(sp, s) == {p \in 1..Len(sp) : sp[p] = s}

\* C1: the passages of chunk_document carry the ids 0, 1, ..., n-1 in the
\* order they are emitted, which is document order (the last sentence of a
\* passage comes before the last sentence of every later passage), so no id
\* is skipped and none is repeated.
C1_IdsContiguous ==
    /\ \A i \in 1..Len(chunks) : chunks[i].id = i - 1
    /\ Len(spans) = Len(chunks)
    /\ \A i, j \in 1..Len(spans) :
          i < j => spans[i][Len(spans[i])] < spans[j][Len(spans[j])]

C1_Witness ==
    /\ cpc = "done"
    /\ Len(chunks) >= 3
    /\ chunks[3].id = 2

\* C2: for overlap >= 0 the returned passages cover the sentence sequence:
\* every passage is a contiguous run of sentences in original order, every
\* sentence is in some passage, and a sentence shared by two passages is
\* among the last `overlap` sentences of the earlier one.
C2_Coverage ==
    (cpc = "done" /\ overlap >= 0) =>
        /\ \A i \in 1..Len(spans) :
              \A p \in 1..(Len(spans[i]) - 1) : spans[i][p + 1] = spans[i][p] + 1
        /\ \A s \in 1..Len(sentences) :
              \E i \in 1..Len(spans) : PosIn(spans[i], s) # {}
        /\ \A i, j \in 1..Len(spans) :
              i < j =>
                \A s \in 1..Len(sentences) :
                    (PosIn(spans[i], s) # {} /\ PosIn(spans[j], s) # {}) =>
                        \A p \in PosIn(spans[i], s) : p > Len(spans[i]) - overlap

\* every character of t is whitespace (the empty text included)
AllSpace(t) == \A i \in 1..Len(t) : IsSpace(t[i])

\* C12: chunk_document never raises: every step of a call is defined until
\* the call returns, and a text that is empty or all whitespace returns the
\* empty passage sequence.
C12_NeverRaises ==
    /\ cpc \in {"call", "loop"} => ENABLED NextChunk
    /\ (cpc = "done" /\ AllSpace(text)) => (sentences = <<>> /\ chunks = <<>>)

C12_Witness ==
    /\ cpc = "done"
    /\ text # <<>>
    /\ AllSpace(text)
    /\ chunks = <<>>

\* C13: a document with at least one sentence and no more than chunk_size
\* words in all yields exactly one passage, whatever the overlap, and that
\* passage is flagged both first and last.
C13_ShortDocOnePassage ==
    (cpc = "done" /\ sentences # <<>> /\ SumWords(sentences) <= chunk_size) =>
        /\ Len(chunks) = 1
        /\ chunks[1].start_sentence
        /\ chunks[1].end_sentence

C13_Witness ==
    /\ cpc = "done"
    /\ Len(sentences) >= 2
    /\ SumWords(sentences) = chunk_size
    /\ overlap = 0
    /\ Len(chunks) = 1
    /\ chunks[1].start_sentence /\ chunks[1].end_sentence

\* C14: in a non-empty result start_sentence is true of the passage with
\* id 0 and of no other, end_sentence of the passage with id n-1 and of no
\* other.
C14_FirstLastFlags ==
    cpc = "done" =>
        \A i \in 1..Len(chunks) :
            /\ chunks[i].start_sentence <=> chunks[i].id = 0
            /\ chunks[i].end_sentence <=> chunks[i].id = Len(chunks) - 1

C14_Witness ==
    /\ cpc = "done"
    /\ Len(chunks) >= 3
    /\ chunks[1].start_sentence /\ ~chunks[1].end_sentence
    /\ ~chunks[2].start_sentence /\ ~chunks[2].end_sentence
    /\ chunks[Len(chunks)].end_sentence /\ ~chunks[Len(chunks)].start_sentence

\* C15: for every emitted passage word_count is the number of
\* whitespace-separated words of its text and char_count the length of its
\* text, also when the buffer was seeded with overlap sentences.
C15_ExactCounts ==
    \A i \in 1..Len(chunks) :
        /\ chunks[i].word_count = WordCount(chunks[i].text)
        /\ chunks[i].char_count = Len(chunks[i].text)

C15_Witness ==
    /\ cpc = "done"
    /\ overlap >= 1
    /\ Len(chunks) >= 2
    /\ Len(spans[2]) >= 2
    /\ spans[2][1] = spans[1][Len(spans[1])]
    /\ chunks[2].word_count >= 2
    /\ chunks[2].word_count = WordCount(chunks[2].text)

(* ------------------------ process_document: claims --------------------- *)
InCall == pc \in {"extract", "chunk", "graph", "rank", "assemble",
                  "returned", "raised"}

Ranked == pc \in {"assemble", "returned"}

\* C3: process_document raises whenever chunking yields zero passages, so a
\* returned record never has an empty passage list.
C3_NoEmptyRecord ==
    pc = "returned" => output_data.graph_structure.nodes # <<>>

\* C4: when the extracted text is the empty string the call fails at the
\* text check: it never reaches the chunking, graph, retrieval or assembly
\* step, and no record exists.
C4_EmptyTextFailsFirst ==
    (InCall /\ text = <<>>) =>
        /\ pc \in {"extract", "raised"}
        /\ output_data = None
        /\ chunks = <<>> /\ edges = <<>> /\ relevant_chunks = <<>>
        /\ graph_branch = "none" /\ rank_branch = "none"

C4_Witness == pc = "raised" /\ text = <<>>

\* C5: within one call create_graph_edges and retrieve_relevant_chunks take
\* the same branch (the retriever takes none only when there is no chunk),
\* and processing_method is "embedding" exactly when that branch is the
\* embedding one, "keyword" otherwise.
C5_ModeConsistent ==
    pc = "returned" =>
        /\ graph_branch \in {"embedding", "keyword"}
        /\ rank_branch \in {graph_branch, "none"}
        /\ rank_branch = "none" => chunks = <<>>
        /\ output_data.metadata.processing_method =
              (IF graph_branch = "embedding" THEN "embedding" ELSE "keyword")

C5_Witness ==
    /\ pc = "returned"
    /\ EMBEDDING_AVAILABLE
    /\ graph_branch = "keyword"
    /\ rank_branch = "keyword"
    /\ output_data.metadata.processing_method = "keyword"

\* C6: the constructor never raises because of the model; a failed load
\* leaves embedding_model = None and embedding_available = False; the engine
\* is in embedding mode only if the import succeeded and the model loaded;
\* and once constructed no step changes the mode.
C6_ConstructedState ==
    /\ pc # "init_raised"
    /\ pc # "new" =>
         /\ load_result = "failed" =>
               (embedding_model = None /\ ~embedding_available)
         /\ UseEmbedding(embedding_available, embedding_model, np) =>
               (EMBEDDING_AVAILABLE /\ load_result = "ok")
         /\ load_result = "failed" <=> (EMBEDDING_AVAILABLE /\ embedding_model = None)

C6_LoadFailureAbsorbed ==
    /\ []C6_ConstructedState
    /\ [][pc # "new" =>
            <<EMBEDDING_AVAILABLE, np, embedding_model, embedding_available>>' =
            <<EMBEDDING_AVAILABLE, np, embedding_model, embedding_available>>]_vars

C6_Witness ==
    /\ pc = "returned"
    /\ load_result = "failed"
    /\ embedding_model = None
    /\ ~embedding_available

(* ------------------- retrieval and graph building: claims -------------- *)
\* the vector encode() returned for chunk number i, and for the query
ChunkVec(i) == encoded[chunks[i].text]
QueryVec == encoded[QueryText(description, audience_type)]

\* cosine similarity with the value 0 for a vector of norm 0
CosineOrZero(u, v) ==
    IF Norm(u) > 0 /\ Norm(v) > 0 THEN Cosine(u, v) ELSE <<0, 1>>

\* the relevance of chunk number i to the query in the mode of this call
ScoreOf(i) ==
    IF rank_branch = "embedding"
    THEN CosineOrZero(QueryVec, ChunkVec(i))
    ELSE Jaccard(QueryWords(description, audience_type), WordSet(chunks[i].text))

IsReturned(i) ==
    \E r \in 1..Len(relevant_chunks) : relevant_chunks[r].id = chunks[i].id

\* C7: in both modes the returned passages are in non-increasing order of
\* relevance_score, and no passage left out scores higher than a returned one.
C7_TopByScore ==
    (Ranked /\ rank_branch # "none") =>
        /\ \A r \in 1..(Len(relevant_chunks) - 1) :
              RatGE(relevant_chunks[r].relevance_score,
                    relevant_chunks[r + 1].relevance_score)
        /\ \A i \in 1..Len(chunks) :
              ~IsReturned(i) =>
                 \A r \in 1..Len(relevant_chunks) :
                    RatGE(relevant_chunks[r].relevance_score, ScoreOf(i))

\* C8: in both modes, for n passages and top_k >= 0, exactly min(top_k, n)
\* passages are returned.
C8_MinTopK ==
    Ranked => Len(relevant_chunks) = Min(top_k, Len(chunks))

\* C9: in embedding mode a vector of norm 0 has similarity 0: no edge joins
\* such a pair when threshold >= 0, and a passage whose similarity to the
\* query is degenerate is still ranked, with relevance_score 0.
C9_ZeroNormIsZero ==
    /\ (pc \in {"rank", "assemble", "returned"} /\ graph_branch = "embedding"
        /\ RatGE(similarity_threshold, <<0, 1>>)) =>
          \A i, j \in 1..Len(chunks) :
             (Norm(ChunkVec(i)) = 0 \/ Norm(ChunkVec(j)) = 0) =>
                ~\E e \in 1..Len(edges) :
                    edges[e].source = chunks[i].id /\ edges[e].target = chunks[j].id
    /\ (Ranked /\ rank_branch = "embedding") =>
          \A i \in 1..Len(chunks) :
             (Norm(QueryVec) = 0 \/ Norm(ChunkVec(i)) = 0) =>
                /\ top_k >= Len(chunks) => IsReturned(i)
                /\ \A r \in 1..Len(relevant_chunks) :
                      relevant_chunks[r].id = chunks[i].id =>
                         RatEQ(relevant_chunks[r].relevance_score, <<0, 1>>)

\* C10: in embedding mode every edge weight and every relevance_score lies
\* in [0, 1].
InUnitInterval(x) == RatGE(x, <<0, 1>>) /\ RatGE(<<1, 1>>, x)

C10_UnitInterval ==
    /\ (pc \in {"rank", "assemble", "returned"} /\ graph_branch = "embedding") =>
          \A e \in 1..Len(edges) : InUnitInterval(edges[e].weight)
    /\ (Ranked /\ rank_branch = "embedding") =>
          \A r \in 1..Len(relevant_chunks) :
             InUnitInterval(relevant_chunks[r].relevance_score)

(* ---------------------- the keyword overlap: claims -------------------- *)
\* C11: the Jaccard overlap of two lowercased word sets lies in [0, 1], is 1
\* for a non-empty word set and itself, is the same in both orders, and is 0
\* when both word sets are empty (the divisor is then 1, not 0).
C11_JaccardAlgebra ==
    jpc = "done" =>
        /\ overlap_ij.ij[2] > 0 /\ overlap_ij.ji[2] > 0 /\ overlap_ij.ii[2] > 0
        /\ InUnitInterval(overlap_ij.ij)
        /\ InUnitInterval(overlap_ij.ii)
        /\ RatEQ(overlap_ij.ij, overlap_ij.ji)
        /\ WordSet(text_i) # {} => RatEQ(overlap_ij.ii, <<1, 1>>)
        /\ (WordSet(text_i) = {} /\ WordSet(text_j) = {}) =>
              RatEQ(overlap_ij.ij, <<0, 1>>)

C11_Witness ==
    /\ jpc = "done"
    /\ WordSet(text_i) # {}
    /\ RatEQ(overlap_ij.ii, <<1, 1>>)
    /\ RatEQ(overlap_ij.ij, <<1, 2>>)
    /\ RatEQ(overlap_ij.ji, <<1, 2>>)

(* ------------------------ create_graph_edges: claims ------------------- *)
Graphed == pc \in {"rank", "assemble", "returned"}

\* the positions of the edges from chunk number i to chunk number j of type ty
EdgesBetween(i, j, ty) ==
    {e \in 1..Len(edges) :
        /\ edges[e].source = chunks[i].id
        /\ edges[e].target = chunks[j].id
        /\ edges[e].type = ty}

\* the edges of type ty
EdgesOfType(ty) == {e \in 1..Len(edges) : edges[e].type = ty}

\* C16: in embedding mode there is exactly one semantic_similarity edge
\* (source i, target j, weight their similarity) for each pair i < j whose
\* similarity is strictly greater than the threshold, and no other edge.
C16_SemanticEdges ==
    (Graphed /\ graph_branch = "embedding") =>
        /\ \A i, j \in 1..Len(chunks) :
              i < j =>
                LET sim == CosineOrZero(ChunkVec(i), ChunkVec(j))
                    es  == EdgesBetween(i, j, "semantic_similarity")
                IN  /\ RatGT(sim, similarity_threshold) =>
                          /\ Cardinality(es) = 1
                          /\ \A e \in es : RatEQ(edges[e].weight, sim)
                    /\ ~RatGT(sim, similarity_threshold) => es = {}
        /\ \A e \in 1..Len(edges) :
              /\ edges[e].type = "semantic_similarity"
              /\ \E i, j \in 1..Len(chunks) :
                    i < j /\ e \in EdgesBetween(i, j, "semantic_similarity")

\* C17: in lexical mode, for any threshold, there are exactly n-1 sequential
\* edges, one from each passage to its successor with weight 0.8, and none
\* when n <= 1.
C17_SequentialEdges ==
    (Graphed /\ graph_branch = "keyword") =>
        /\ Cardinality(EdgesOfType("sequential")) = Max(Len(chunks) - 1, 0)
        /\ \A i \in 1..(Len(chunks) - 1) :
              /\ Cardinality(EdgesBetween(i, i + 1, "sequential")) = 1
              /\ \A e \in EdgesBetween(i, i + 1, "sequential") :
                    RatEQ(edges[e].weight, <<8, 10>>)

C17_Witness ==
    /\ Graphed
    /\ graph_branch = "keyword"
    /\ Len(chunks) = 4
    /\ Cardinality(EdgesOfType("sequential")) = 3

\* the Jaccard overlap of the lowercased word sets of chunks i and j
ChunkOverlap(i, j) == Jaccard(WordSet(chunks[i].text), WordSet(chunks[j].text))

\* C18: in lexical mode there is a keyword_overlap edge from passage i to
\* passage j exactly when j is i+1 or i+2 and their Jaccard overlap is
\* strictly greater than 0.2, its weight is that overlap, no passages more
\* than two apart are linked, and no edge is of type semantic_similarity.
C18_KeywordEdges ==
    (Graphed /\ graph_branch = "keyword") =>
        /\ \A i, j \in 1..Len(chunks) :
              LET es == EdgesBetween(i, j, "keyword_overlap")
              IN  IF j \in {i + 1, i + 2} /\ RatGT(ChunkOverlap(i, j), <<2, 10>>)
                  THEN /\ Cardinality(es) = 1
                       /\ \A e \in es : RatEQ(edges[e].weight, ChunkOverlap(i, j))
                  ELSE es = {}
        /\ \A e \in EdgesOfType("keyword_overlap") :
              edges[e].target - edges[e].source \in {1, 2}
        /\ EdgesOfType("semantic_similarity") = {}

C18_Witness ==
    /\ Graphed
    /\ graph_branch = "keyword"
    /\ Len(chunks) = 4
    /\ RatGT(ChunkOverlap(1, 4), <<2, 10>>)
    /\ EdgesBetween(1, 4, "keyword_overlap") = {}
    /\ ~RatGT(ChunkOverlap(1, 3), <<2, 10>>)
    /\ EdgesBetween(1, 3, "keyword_overlap") = {}
    /\ EdgesBetween(2, 4, "keyword_overlap") # {}

ChunkIds == {chunks[i].id : i \in 1..Len(chunks)}

\* C19: in both modes every edge over the chunker's passages joins two
\* different passages of the list: source # target and both are ids of it.
C19_NoSelfLoop ==
    Graphed =>
        \A e \in 1..Len(edges) :
            /\ edges[e].source # edges[e].target
            /\ edges[e].source \in ChunkIds
            /\ edges[e].target \in ChunkIds

C19_Witness ==
    /\ Graphed
    /\ graph_branch = "embedding"
    /\ Len(chunks) = 3
    /\ Len(edges) = 3
    /\ \A e \in 1..Len(edges) : edges[e].source # edges[e].target

(* --------------------- retrieve_relevant_chunks: claims ---------------- *)
\* C21: in both modes, of two returned passages with equal relevance scores
\* the one that comes earlier in the input passage list is placed first.
C21_StableTies ==
    (Ranked /\ rank_branch # "none") =>
        \A r, s \in 1..Len(relevant_chunks) :
            (r < s /\ RatEQ(relevant_chunks[r].relevance_score,
                            relevant_chunks[s].relevance_score)) =>
                relevant_chunks[r].id < relevant_chunks[s].id

C21_Witness ==
    /\ Ranked
    /\ rank_branch = "embedding"
    /\ Len(chunks) = 3
    /\ Len(relevant_chunks) = 2
    /\ RatEQ(relevant_chunks[1].relevance_score,
             relevant_chunks[2].relevance_score)
    /\ relevant_chunks[1].id = 1
    /\ relevant_chunks[2].id = 2

HasScore(node) == "relevance_score" \in DOMAIN node

\* rc is a copy of node with a relevance_score added and nothing else changed
IsScoredCopy(rc, node) ==
    /\ DOMAIN rc = DOMAIN node \cup {"relevance_score"}
    /\ \A f \in DOMAIN node : rc[f] = node[f]

\* C22: retrieve_relevant_chunks leaves the input passage list as the chunker
\* produced it, no node of graph_structure.nodes carries a relevance_score,
\* and each returned passage is a copy of an input passage that differs from
\* it only by the added relevance_score.
C22_InputUntouched ==
    /\ Ranked =>
          /\ chunks = ChunkDocument(text, chunk_size, overlap)
          /\ \A i \in 1..Len(chunks) : ~HasScore(chunks[i])
          /\ \A r \in 1..Len(relevant_chunks) :
                \E i \in 1..Len(chunks) :
                    /\ ~HasScore(chunks[i])
                    /\ IsScoredCopy(relevant_chunks[r], chunks[i])
    /\ pc = "returned" =>
          \A i \in 1..Len(output_data.graph_structure.nodes) :
              ~HasScore(output_data.graph_structure.nodes[i])

C22_Witness ==
    /\ pc = "returned"
    /\ Len(output_data.graph_structure.nodes) = 2
    /\ Len(output_data.relevant_chunks) = 2
    /\ \A r \in 1..2 : HasScore(output_data.relevant_chunks[r])

(* ------------------ process_document: the returned record -------------- *)
\* C23: in the returned record total_chunks is the number of nodes,
\* total_edges the number of edges, relevant_chunks_count the number of ranked
\* passages, description and audience_type are the arguments of the call, and
\* graph_structure.nodes is the chunker's passage list in order.
C23_RecordConsistent ==
    pc = "returned" =>
        /\ output_data.metadata.total_chunks =
              Len(output_data.graph_structure.nodes)
        /\ output_data.metadata.total_edges =
              Len(output_data.graph_structure.edges)
        /\ output_data.metadata.relevant_chunks_count =
              Len(output_data.relevant_chunks)
        /\ output_data.metadata.description = description
        /\ output_data.metadata.audience_type = audience_type
        /\ output_data.graph_structure.nodes =
              ChunkDocument(text, chunk_size, overlap)

C23_Witness ==
    /\ pc = "returned"
    /\ output_data.metadata.total_chunks = 3
    /\ output_data.metadata.total_edges = 2
    /\ output_data.metadata.relevant_chunks_count = 1

(* ------------------- chunk_document: the closing rule ------------------ *)
\* the last n elements of a sequence, all of them when it has fewer
LastN(seq, n) == SubSeq(seq, Len(seq) - Min(n, Len(seq)) + 1, Len(seq))

\* the step is one iteration of the for loop
LoopIteration == cpc = "loop" /\ idx <= Len(sentences) /\ idx' = idx + 1

\* the buffer is non-empty and the next sentence would take it over chunk_size
WouldExceed ==
    /\ current_chunk # <<>>
    /\ SumWords(current_chunk) + WordCount(sentences[idx]) > chunk_size

\* C24: for overlap >= 0, a passage is closed exactly when the buffer is
\* non-empty and the next sentence would take its word count over chunk_size;
\* the next buffer is then the last `overlap` sentences of the closed buffer
\* (all when it has fewer, none when overlap = 0) followed by that sentence.
C24_CloseRule ==
    [][(LoopIteration /\ overlap >= 0) =>
          /\ (Len(chunks') = Len(chunks) + 1) <=> WouldExceed
          /\ Len(chunks') \in {Len(chunks), Len(chunks) + 1}
          /\ WouldExceed =>
                /\ chunks'[Len(chunks')].text = Join(current_chunk)
                /\ current_chunk' =
                      LastN(current_chunk, overlap) \o <<sentences[idx]>>
          /\ ~WouldExceed =>
                current_chunk' = Append(current_chunk, sentences[idx])]_vars

(* ------------- two calls on the shared engine: claims ------------------ *)
TwoCalls == running \in {1, 2}

\* the two calls have the same document, chunking, query and top_k
SameQuery ==
    /\ waiting.text = text
    /\ waiting.chunk_size = chunk_size
    /\ waiting.overlap = overlap
    /\ waiting.description = description
    /\ waiting.audience_type = audience_type
    /\ waiting.top_k = top_k

\* C25: two process_document calls in the same mode with the same passages,
\* query and top_k return the same relevant_chunks whatever their
\* similarity_threshold and whatever edge lists they built.
C25_GraphIndependent ==
    (TwoCalls /\ pc = "returned" /\ waiting.pc = "returned" /\ SameQuery) =>
        output_data.relevant_chunks = waiting.output_data.relevant_chunks

C25_Witness ==
    /\ TwoCalls
    /\ pc = "returned"
    /\ waiting.pc = "returned"
    /\ SameQuery
    /\ similarity_threshold # waiting.similarity_threshold
    /\ edges = <<>>
    /\ waiting.edges # <<>>
    /\ output_data.relevant_chunks # <<>>

\* what the call with frame f returns when it runs alone on the engine
AloneResult(f) ==
    LET chs == ChunkDocument(f.text, f.chunk_size, f.overlap)
        emb == UseEmbedding(embedding_available, embedding_model, np)
        vs  == [i \in 1..Len(chs) |-> encoded[chs[i].text]]
        es  == IF emb THEN EmbeddingEdges(chs, vs, f.similarity_threshold)
               ELSE LexicalEdges(chs)
        rel == IF chs = <<>> THEN <<>>
               ELSE IF emb
                    THEN RetrieveEmbedding(
                             chs,
                             encoded[QueryText(f.description, f.audience_type)],
                             vs, f.top_k)
                    ELSE RetrieveLexical(chs, f.description, f.audience_type,
                                         f.top_k)
    IN  OutputData(f.description, f.audience_type, chs, es, rel,
                   ProcessingMethod(embedding_available, embedding_model))

\* C26: under every interleaving of two process_document calls on the shared
\* engine, each call returns the passages, edges and ranking it returns when
\* run alone, and no call writes state written by the other.
C26_CallsIndependent ==
    TwoCalls =>
        /\ pc = "returned" => output_data = AloneResult(Frame)
        /\ waiting.pc = "returned" => waiting.output_data = AloneResult(waiting)
        /\ \A n \in DOMAIN image_files :
              \A w \in 1..Len(image_files[n]) :
                  image_files[n][w] = image_files[n][1]

(* ----------------------------- web layer: claims ----------------------- *)
\* C27: every description the web layer passes to process_document has at
\* most 1000 characters, on the submit path and on the content-feedback path.
C27_DescriptionBounded == passed_description <= MaxDescriptionChars

\* C28: the slide-generation call counter is at most 6 in every reachable
\* state and at most 6 API requests are issued, under any interleaving of
\* generate_slides calls from concurrent request threads.
C28_CounterBounded ==
    /\ _SLIDE_GENERATION_CALL_COUNT <= _MAX_SLIDE_GENERATION_CALLS
    /\ api_requests <= _MAX_SLIDE_GENERATION_CALLS

(* ------------------ chunk_document: size bound and progress ------------ *)
\* the number of sentences passage i was seeded with: the last `overlap`
\* sentences of the passage before it (all when it has fewer), none for the
\* first passage
SeedLen(i) == IF i = 1 THEN 0 ELSE Min(overlap, Len(spans[i - 1]))

\* C29: for overlap >= 0, a passage whose word_count is greater than
\* chunk_size contains exactly one sentence beyond its overlap seed (a single
\* sentence when it is the first passage), and a sentence that would take a
\* non-empty buffer over chunk_size is never appended by the else branch: the
\* buffer is closed instead.
C29_ForcedAdmission ==
    /\ []((cpc = "done" /\ overlap >= 0) =>
            \A i \in 1..Len(chunks) :
                chunks[i].word_count > chunk_size =>
                    Len(spans[i]) = SeedLen(i) + 1)
    /\ [][(LoopIteration /\ overlap >= 0 /\ WouldExceed) =>
              Len(chunks') = Len(chunks) + 1]_vars

\* the sentences (by position) of passage i
SentencesOf(i) == {spans[i][p] : p \in 1..Len(spans[i])}

\* C30: chunk_document returns on every input, and for overlap >= 0 every
\* passage contains a sentence that no earlier passage contains, no passage
\* is empty, and there are at most as many passages as sentences.
C30_Progress ==
    /\ <>(cpc = "done")
    /\ []((cpc = "done" /\ overlap >= 0) =>
            /\ Len(chunks) <= Len(sentences)
            /\ \A i \in 1..Len(chunks) :
                  /\ chunks[i].text # <<>>
                  /\ spans[i] # <<>>
                  /\ \E n \in SentencesOf(i) :
                        \A j \in 1..(i - 1) : n \notin SentencesOf(j))

C30_Witness ==
    /\ cpc = "done"
    /\ overlap = 0
    /\ chunk_size = 1
    /\ Len(sentences) = 3
    /\ Len(chunks) = 3
    /\ SentencesOf(3) = {1, 2, 3}

====
